---- MODULE Spec2Model ----
(***************************************************************************)
(* rat: N serial-port reader threads fan lines into one mpsc channel; the  *)
(* main thread stamps each received (port_name, line) pair and appends it  *)
(* to <directory>/<unix seconds at start>.csv.  Model of src/src/main.rs.  *)
(***************************************************************************)
EXTENDS Naturals, Sequences, FiniteSets

\* ------------------------------------------------------------- bounds
\* most -p arguments of a run that is followed past parse_args
MaxCfgPorts == 2
\* most items (lines or errors) the ports' streams yield in one run, all
\* ports together, before every further read reports end-of-input
MaxReads == 3
\* timestamp() returns one of 0..MaxClock
MaxClock == 1
\* most runs of the program over one directory (SpecRerun)
MaxRuns == 2

\* ------------------------------------------------- program constants
\* main.rs:93  ports.len() > 8
MaxPorts == 8

\* port names on the command line
Names == <<"A", "B", "C", "D">>

\* args.ports as the command line can give it: the lists of at most
\* MaxCfgPorts ports, either all different or all the same port (nothing
\* in parse_args keeps a port from being named twice), and one list that is
\* one port too long
PortLists ==
    {[i \in 1..n |-> Names[i]] : n \in 0..MaxCfgPorts}
        \cup {[i \in 1..n |-> Names[1]] : n \in 2..MaxCfgPorts}
        \cup {[i \in 1..(MaxPorts + 1) |-> Names[1]]}

VARIABLES
    argKind,    \* shape of argv: "ok", "help" (-h given), "malformed"
    directory,  \* args.directory ("" when -d was not given)
    ports,      \* args.ports
    clock,      \* the seconds since the epoch that timestamp() returned
                \* when it was last called, in this run or an earlier one
    dirExists,  \* the output directory exists
    fs,         \* files of the output directory: name (seconds) -> lines
    proc,       \* the process: "running", or how it ended: "exit_ok",
                \* "exit_cfg" (exit(1)), "exit_err" (main's Err), "killed"
    mainpc,     \* position of the main thread
    filePath,   \* main's file_path (the seconds in its name), once printed
    printed,    \* "Recording to ..." has been printed
    file,       \* main has created the File and holds it
    txMain,     \* main's Sender is alive
    rxAlive,    \* the Receiver is alive
    queue,      \* items in the channel
    spawnIdx,   \* next element of port_settings to spawn
    whand,      \* the item the writer loop holds between recv and writeln!
    rpc,        \* position of each reader thread
    txHeld,     \* the reader's closure holds its Sender clone
    hand,       \* the line a reader holds between lines.next() and send
    openRes,    \* history: result of the reader's open()
    events,     \* history: what each lines.next() of the reader returned:
                \* "line" (Ok), "bad" (Err, not UTF-8), "ioerr" (Err, the
                \* read failed), "eof" (None)
    sent,       \* history: the lines each reader's send() accepted, in order
    wrote,      \* history: a writeln! of this run has failed
    runs,       \* number of the current run over this directory
    lastMade,   \* history: the run that ended last had created its file
    lastPath,   \* history: the name of that file
    lastContent \* history: the content of that file when the run ended

argVars == <<argKind, directory, ports>>
envVars == <<clock, dirExists, fs>>
mainVars == <<mainpc, filePath, printed, file, spawnIdx, whand, wrote>>
chanVars == <<txMain, rxAlive, queue>>
readerVars == <<rpc, txHeld, hand, openRes, events, sent>>
runVars == <<runs, lastMade, lastPath, lastContent>>
vars == <<argVars, envVars, proc, mainVars, chanVars, readerVars, runVars>>

Readers == 1..Len(ports)
\* a line of text is named by its place among the lines its port has
\* yielded (1, 2, ...): the lines of one port differ from each other, and
\* two ports can yield the same line
NoItem == [port |-> "", text |-> 0]
NoLine == NoItem.text

\* ------------------------------------------------------------ helpers
\* parse_args without the check of line 93
ParseResultNoMax ==
    IF argKind = "help" THEN "help"
    ELSE IF argKind = "malformed" THEN "err"
    ELSE IF directory = "" THEN "err"
    ELSE IF Len(ports) = 0 THEN "err"
    ELSE "ok"

\* parse_args: the argument loop first (help, unknown argument), then the
\* three checks on directory and ports, in the order of the code
ParseResult ==
    IF argKind = "help" THEN "help"
    ELSE IF argKind = "malformed" THEN "err"
    ELSE IF directory = "" THEN "err"
    ELSE IF Len(ports) = 0 THEN "err"
    ELSE IF Len(ports) > MaxPorts THEN "err"
    ELSE "ok"

\* the Senders alive: main's original and every reader's clone
NoSenders == ~txMain /\ \A r \in Readers : ~txHeld[r]

\* a receiver that reports the end as soon as the Senders are gone, with
\* items still queued
EndOfStreamNoDrain == ~txMain /\ \A r \in Readers : ~txHeld[r]

\* a receiver that reports the end whenever nothing is queued
EndOfStreamEmptyQueue == queue = <<>>

\* rx's iterator returns None: nothing queued and every Sender dropped
EndOfStream == queue = <<>> /\ NoSenders

\* a channel that hands out the newest item first
EnqueueFront(q, item) == <<item>> \o q

\* tx.send: the item joins the back of the queue
Enqueue(q, item) == Append(q, item)

\* every reader tagging with the first port's name (port_name not
\* rebound per iteration)
TaggedFirstPort(r, data) == [port |-> ports[1], text |-> data]

\* (port_name.clone(), data)
Tagged(r, data) == [port |-> ports[r], text |-> data]

\* a line stamped with the time read once at start-up, the one in the file
\* name, instead of a time read for this line
RecordStartTime(ts, item) ==
    [ts |-> filePath, port |-> item.port, text |-> item.text]

\* the line writeln! formats: timestamp(), port_name, line
Record(ts, item) == [ts |-> ts, port |-> item.port, text |-> item.text]

\* timestamp(): the system clock does not run backwards, so a call returns
\* what the last call returned or, time having passed, something later
Timestamps == clock..MaxClock

\* File::create: a new empty file, or the existing one truncated
Created(f, name) ==
    [n \in (DOMAIN f) \cup {name} |-> IF n = name THEN <<>> ELSE f[n]]

\* a line written at the start of a file that was not opened for appending
\* and is rewound before each write: it replaces what was there
AppendedOverwrite(f, name, rec) == [f EXCEPT ![name] = <<rec>>]

\* a line appended at the end of the open file
Appended(f, name, rec) == [f EXCEPT ![name] = Append(@, rec)]

\* how many of the items a reader got were of kind k
CountOf(r, k) == Cardinality({i \in 1..Len(events[r]) : events[r][i] = k})

\* the Ok(data) lines a reader got, in order
Decoded(r) == [i \in 1..CountOf(r, "line") |-> i]

\* the items (lines and errors) the streams of readers 1..n have yielded
RECURSIVE Yielded(_)
Yielded(n) ==
    IF n = 0 THEN 0
    ELSE Len(events[n]) - CountOf(n, "eof") + Yielded(n - 1)

\* items the streams of all ports have yielded in this run
TotalReads == Yielded(Len(ports))

\* ---------------------------------------------------------------- Init
\* the state of a process that has not started or has ended
Gone ==
    /\ mainpc = "parse"
    /\ filePath = 0
    /\ printed = FALSE
    /\ file = FALSE
    /\ txMain = FALSE
    /\ rxAlive = FALSE
    /\ queue = <<>>
    /\ spawnIdx = 1
    /\ whand = NoItem
    /\ wrote = FALSE
    /\ rpc = [r \in Readers |-> "unspawned"]
    /\ txHeld = [r \in Readers |-> FALSE]
    /\ hand = [r \in Readers |-> NoLine]
    /\ openRes = [r \in Readers |-> "none"]
    /\ events = [r \in Readers |-> <<>>]
    /\ sent = [r \in Readers |-> <<>>]

ProcInit == proc = "running" /\ Gone

Init ==
    /\ argKind \in {"ok", "help", "malformed"}
    /\ directory \in {"", "out"}
    /\ ports \in PortLists
    /\ clock = 0
    /\ dirExists = FALSE
    /\ fs = <<>>
    /\ runs = 1
    /\ lastMade = FALSE
    /\ lastPath = 0
    /\ lastContent = <<>>
    /\ ProcInit

\* ---------------------------------------------------------- main thread
MainAt(pc) == proc = "running" /\ mainpc = pc

\* the state of a process that has ended, as an assignment
Wiped ==
    /\ mainpc' = "parse"
    /\ filePath' = 0
    /\ printed' = FALSE
    /\ file' = FALSE
    /\ txMain' = FALSE
    /\ rxAlive' = FALSE
    /\ queue' = <<>>
    /\ spawnIdx' = 1
    /\ whand' = NoItem
    /\ wrote' = FALSE
    /\ rpc' = [r \in Readers |-> "unspawned"]
    /\ txHeld' = [r \in Readers |-> FALSE]
    /\ hand' = [r \in Readers |-> NoLine]
    /\ openRes' = [r \in Readers |-> "none"]
    /\ events' = [r \in Readers |-> <<>>]
    /\ sent' = [r \in Readers |-> <<>>]

\* the process is gone: its threads, its channel and its open file go with
\* it; what stays is the argument list, the clock and the directory
Ended(how) ==
    /\ proc' = how
    /\ Wiped
    /\ lastMade' = file
    /\ lastPath' = IF file THEN filePath ELSE 0
    /\ lastContent' = IF file THEN fs[filePath] ELSE <<>>
    /\ UNCHANGED <<argVars, envVars, runs>>

\* main.rs:52-55  -h: print_usage, exit(0)
ParseHelp ==
    /\ MainAt("parse")
    /\ ParseResult = "help"
    /\ Ended("exit_ok")

\* main.rs:107-112  Err(e): report, print_usage, exit(1)
ParseErr ==
    /\ MainAt("parse")
    /\ ParseResult = "err"
    /\ Ended("exit_cfg")

ParseOk ==
    /\ MainAt("parse")
    /\ ParseResult = "ok"
    /\ mainpc' = "mkdir"
    /\ UNCHANGED <<argVars, envVars, proc, filePath, printed, file, spawnIdx,
                   whand, wrote, chanVars, readerVars, runVars>>

\* main.rs:116  create_dir_all(directory)?
CreateDirOk ==
    /\ MainAt("mkdir")
    /\ dirExists' = TRUE
    /\ mainpc' = "name"
    /\ UNCHANGED <<argVars, clock, fs, proc, filePath, printed, file, spawnIdx,
                   whand, wrote, chanVars, readerVars, runVars>>

CreateDirFail ==
    /\ MainAt("mkdir")
    /\ ~dirExists
    /\ mainpc' = "ret_err"
    /\ UNCHANGED <<argVars, envVars, proc, filePath, printed, file, spawnIdx,
                   whand, wrote, chanVars, readerVars, runVars>>

\* main.rs:118-119  file_path = directory/<timestamp()>.csv; println!
NameFile ==
    /\ MainAt("name")
    /\ \E now \in Timestamps :
        /\ clock' = now
        /\ filePath' = now
    /\ printed' = TRUE
    /\ mainpc' = "create"
    /\ UNCHANGED <<argVars, dirExists, fs, proc, file, spawnIdx, whand, wrote,
                   chanVars, readerVars, runVars>>

\* main.rs:121  File::create(file_path)?
FileCreateOk ==
    /\ MainAt("create")
    /\ fs' = Created(fs, filePath)
    /\ file' = TRUE
    /\ mainpc' = "channel"
    /\ UNCHANGED <<argVars, clock, dirExists, proc, filePath, printed,
                   spawnIdx, whand, wrote, chanVars, readerVars, runVars>>

\* File::create whose error is dropped instead of returned with `?`
FileCreateFailIgnored ==
    /\ MainAt("create")
    /\ mainpc' = "channel"
    /\ UNCHANGED <<argVars, envVars, proc, filePath, printed, file, spawnIdx,
                   whand, wrote, chanVars, readerVars, runVars>>

FileCreateFail ==
    /\ MainAt("create")
    /\ mainpc' = "ret_err"
    /\ UNCHANGED <<argVars, envVars, proc, filePath, printed, file, spawnIdx,
                   whand, wrote, chanVars, readerVars, runVars>>

\* main.rs:123  let (tx, rx) = mpsc::channel()
MakeChannel ==
    /\ MainAt("channel")
    /\ txMain' = TRUE
    /\ rxAlive' = TRUE
    /\ queue' = <<>>
    /\ spawnIdx' = 1
    /\ mainpc' = "spawn"
    /\ UNCHANGED <<argVars, envVars, proc, filePath, printed, file, whand,
                   wrote, readerVars, runVars>>

\* main.rs:131-152  one iteration: tx.clone(), thread::spawn
SpawnReader ==
    /\ MainAt("spawn")
    /\ spawnIdx \in Readers
    /\ txHeld' = [txHeld EXCEPT ![spawnIdx] = TRUE]
    /\ rpc' = [rpc EXCEPT ![spawnIdx] = "open"]
    /\ spawnIdx' = spawnIdx + 1
    /\ UNCHANGED <<argVars, envVars, proc, mainpc, filePath, printed, file,
                   whand, wrote, chanVars, hand, openRes, events, sent,
                   runVars>>

\* main joining every reader thread before it starts the writer loop
DropTxAfterJoin ==
    /\ MainAt("spawn")
    /\ spawnIdx \notin Readers
    /\ \A r \in Readers : rpc[r] = "exited"
    /\ txMain' = FALSE
    /\ mainpc' = "recv"
    /\ UNCHANGED <<argVars, envVars, proc, filePath, printed, file, spawnIdx,
                   whand, wrote, rxAlive, queue, readerVars, runVars>>

\* main going on to the writer loop with its Sender still alive
DropTxForgotten ==
    /\ MainAt("spawn")
    /\ spawnIdx \notin Readers
    /\ mainpc' = "recv"
    /\ UNCHANGED <<argVars, envVars, proc, filePath, printed, file, spawnIdx,
                   whand, wrote, chanVars, readerVars, runVars>>

\* main.rs:154  drop(tx)
DropTx ==
    /\ MainAt("spawn")
    /\ spawnIdx \notin Readers
    /\ txMain' = FALSE
    /\ mainpc' = "recv"
    /\ UNCHANGED <<argVars, envVars, proc, filePath, printed, file, spawnIdx,
                   whand, wrote, rxAlive, queue, readerVars, runVars>>

\* main.rs:156  the iterator of rx yields the next item
RecvItem ==
    /\ MainAt("recv")
    /\ queue # <<>>
    /\ whand' = Head(queue)
    /\ queue' = Tail(queue)
    /\ mainpc' = "write"
    /\ UNCHANGED <<argVars, envVars, proc, filePath, printed, file, spawnIdx,
                   wrote, txMain, rxAlive, readerVars, runVars>>

\* main.rs:156,160  the iterator ends; rx and file are dropped; Ok(())
RecvEnd ==
    /\ MainAt("recv")
    /\ EndOfStream
    /\ rxAlive' = FALSE
    /\ mainpc' = "ret_ok"
    /\ UNCHANGED <<argVars, envVars, proc, filePath, printed, file, spawnIdx,
                   whand, wrote, txMain, queue, readerVars, runVars>>

\* main.rs:157  writeln!(file, "{},{},{}", timestamp(), port_name, line)
WriteOk ==
    /\ MainAt("write")
    /\ \E now \in Timestamps :
        /\ clock' = now
        /\ fs' = Appended(fs, filePath, Record(now, whand))
    /\ whand' = NoItem
    /\ mainpc' = "recv"
    /\ UNCHANGED <<argVars, dirExists, proc, filePath, printed, file,
                   spawnIdx, wrote, chanVars, readerVars, runVars>>

\* main.rs:157  the write fails: ? returns the error, dropping rx and file
WriteFail ==
    /\ MainAt("write")
    /\ \E now \in Timestamps : clock' = now
    /\ whand' = NoItem
    /\ wrote' = TRUE
    /\ rxAlive' = FALSE
    /\ mainpc' = "ret_err"
    /\ UNCHANGED <<argVars, dirExists, fs, proc, filePath, printed, file,
                   spawnIdx, txMain, queue, readerVars, runVars>>

\* main returns: the runtime ends the process, and every thread with it
ProcessExit ==
    /\ proc = "running"
    /\ mainpc \in {"ret_ok", "ret_err"}
    /\ Ended(IF mainpc = "ret_ok" THEN "exit_ok" ELSE "exit_err")

\* Ctrl+C
Interrupt ==
    /\ proc = "running"
    /\ Ended("killed")

\* -------------------------------------------------------- reader threads
ReaderAt(r, pc) == proc = "running" /\ rpc[r] = pc

\* main.rs:136-137  open() returns Ok(p)
OpenOk(r) ==
    /\ ReaderAt(r, "open")
    /\ rpc' = [rpc EXCEPT ![r] = "read"]
    /\ openRes' = [openRes EXCEPT ![r] = "ok"]
    /\ UNCHANGED <<argVars, envVars, proc, mainVars, chanVars, txHeld, hand,
                   events, sent, runVars>>

\* an open failure after which the thread tries the open again, in a loop
OpenFailRetries(r) ==
    /\ ReaderAt(r, "open")
    /\ openRes' = [openRes EXCEPT ![r] = "failed"]
    /\ UNCHANGED <<argVars, envVars, proc, mainVars, chanVars, rpc, txHeld,
                   hand, events, sent, runVars>>

\* an open failure that ends the process instead of the thread
OpenFailExits(r) ==
    /\ ReaderAt(r, "open")
    /\ Ended("exit_err")

\* main.rs:138-141  open() returns Err: report, return (the clone drops)
OpenFail(r) ==
    /\ ReaderAt(r, "open")
    /\ rpc' = [rpc EXCEPT ![r] = "exited"]
    /\ txHeld' = [txHeld EXCEPT ![r] = FALSE]
    /\ openRes' = [openRes EXCEPT ![r] = "failed"]
    /\ UNCHANGED <<argVars, envVars, proc, mainVars, chanVars, hand, events,
                   sent, runVars>>

\* main.rs:146-147  lines.next() is Some(Ok(data))
NextLine(r) == CountOf(r, "line") + 1

ReadLine(r, data) ==
    /\ ReaderAt(r, "read")
    /\ TotalReads < MaxReads
    /\ events' = [events EXCEPT ![r] = Append(@, "line")]
    /\ hand' = [hand EXCEPT ![r] = data]
    /\ rpc' = [rpc EXCEPT ![r] = "send"]
    /\ UNCHANGED <<argVars, envVars, proc, mainVars, chanVars, txHeld,
                   openRes, sent, runVars>>

\* a loop that breaks at the first Err
ReadErrEnds(r, kind) ==
    /\ ReaderAt(r, "read")
    /\ TotalReads < MaxReads
    /\ events' = [events EXCEPT ![r] = Append(@, kind)]
    /\ rpc' = [rpc EXCEPT ![r] = "exited"]
    /\ txHeld' = [txHeld EXCEPT ![r] = FALSE]
    /\ UNCHANGED <<argVars, envVars, proc, mainVars, chanVars, hand, openRes,
                   sent, runVars>>

\* a loop that sends an empty line for an Err (line.unwrap_or_default())
ReadErrSendsBlank(r, kind) ==
    /\ ReaderAt(r, "read")
    /\ TotalReads < MaxReads
    /\ events' = [events EXCEPT ![r] = Append(@, kind)]
    /\ hand' = [hand EXCEPT ![r] = NoLine]
    /\ rpc' = [rpc EXCEPT ![r] = "send"]
    /\ UNCHANGED <<argVars, envVars, proc, mainVars, chanVars, txHeld,
                   openRes, sent, runVars>>

\* main.rs:146-149  lines.next() is Some(Err(e)): the if let does not match
\* and the for loop goes on.  kind "bad": the line is not UTF-8;
\* kind "ioerr": the read of the port failed
ReadErr(r, kind) ==
    /\ ReaderAt(r, "read")
    /\ TotalReads < MaxReads
    /\ events' = [events EXCEPT ![r] = Append(@, kind)]
    /\ UNCHANGED <<argVars, envVars, proc, mainVars, chanVars, rpc, txHeld,
                   hand, openRes, sent, runVars>>

\* main.rs:146,151  lines.next() is None (the read returned 0 bytes): the
\* loop ends, the closure returns and its Sender clone drops
ReadEof(r) ==
    /\ ReaderAt(r, "read")
    /\ events' = [events EXCEPT ![r] = Append(@, "eof")]
    /\ rpc' = [rpc EXCEPT ![r] = "exited"]
    /\ txHeld' = [txHeld EXCEPT ![r] = FALSE]
    /\ UNCHANGED <<argVars, envVars, proc, mainVars, chanVars, hand, openRes,
                   sent, runVars>>

\* a send into a bounded channel (sync_channel(1)): it waits while the one
\* slot is taken
SendOkBounded(r) ==
    /\ ReaderAt(r, "send")
    /\ rxAlive
    /\ queue = <<>>
    /\ queue' = Enqueue(queue, Tagged(r, hand[r]))
    /\ sent' = [sent EXCEPT ![r] = Append(@, hand[r])]
    /\ hand' = [hand EXCEPT ![r] = NoLine]
    /\ rpc' = [rpc EXCEPT ![r] = "read"]
    /\ UNCHANGED <<argVars, envVars, proc, mainVars, txMain, rxAlive, txHeld,
                   openRes, events, runVars>>

\* main.rs:148  tx.send(..) is Ok: the Receiver is alive
SendOk(r) ==
    /\ ReaderAt(r, "send")
    /\ rxAlive
    /\ queue' = Enqueue(queue, Tagged(r, hand[r]))
    /\ sent' = [sent EXCEPT ![r] = Append(@, hand[r])]
    /\ hand' = [hand EXCEPT ![r] = NoLine]
    /\ rpc' = [rpc EXCEPT ![r] = "read"]
    /\ UNCHANGED <<argVars, envVars, proc, mainVars, txMain, rxAlive, txHeld,
                   openRes, events, runVars>>

\* main.rs:148  tx.send(..) is Err (the Receiver is gone); let _ drops it
SendFail(r) ==
    /\ ReaderAt(r, "send")
    /\ ~rxAlive
    /\ hand' = [hand EXCEPT ![r] = NoLine]
    /\ rpc' = [rpc EXCEPT ![r] = "read"]
    /\ UNCHANGED <<argVars, envVars, proc, mainVars, chanVars, txHeld,
                   openRes, events, sent, runVars>>

\* ------------------------------------------------- a further run (rerun)
\* the program is started again with the same arguments over the same
\* directory, after the previous process has ended
Rerun ==
    /\ proc # "running"
    /\ runs < MaxRuns
    /\ runs' = runs + 1
    /\ proc' = "running"
    /\ UNCHANGED <<argVars, envVars, mainVars, chanVars, readerVars, lastMade,
                   lastPath, lastContent>>

\* ------------------------------------------------------- specifications
MainStep ==
    \/ ParseHelp
    \/ ParseErr
    \/ ParseOk
    \/ CreateDirOk
    \/ CreateDirFail
    \/ NameFile
    \/ FileCreateOk
    \/ FileCreateFail
    \/ MakeChannel
    \/ SpawnReader
    \/ DropTx

WriterStep ==
    \/ RecvItem
    \/ RecvEnd
    \/ WriteOk
    \/ WriteFail

ReaderStep(r) ==
    \/ OpenOk(r)
    \/ OpenFail(r)
    \/ ReadLine(r, NextLine(r))
    \/ \E kind \in {"bad", "ioerr"} : ReadErr(r, kind)
    \/ ReadEof(r)
    \/ SendOk(r)
    \/ SendFail(r)

Next ==
    \/ MainStep
    \/ WriterStep
    \/ ProcessExit
    \/ Interrupt
    \/ \E r \in Readers : ReaderStep(r)

Spec == Init /\ [][Next]_vars

\* the program run again and again over one directory
NextRerun == Next \/ Rerun

\* the reruns are followed for the command lines with at most one port
InitRerun == Init /\ Len(ports) <= 1

SpecRerun == InitRerun /\ [][NextRerun]_vars

\* the fair runs are followed for the command lines that name no port twice
InitFair ==
    /\ Init
    /\ Len(ports) <= MaxPorts =>
        \A i, j \in Readers : ports[i] = ports[j] => i = j

\* the writer thread is never starved by the scheduler
FairSpec == InitFair /\ [][Next]_vars /\ WF_vars(WriterStep)

\* the fair sends are followed for the command lines with at most two
\* ports, one reader to produce and one to stay silent (or with too many)
InitPair == InitFair /\ Len(ports) \notin 3..MaxPorts

\* the main thread is never starved, and no reader thread is starved at
\* its send; whether and when a port yields anything is left open, so a
\* reader may stay in its read for ever
FairSendSpec ==
    /\ InitPair
    /\ [][Next]_vars
    /\ WF_vars(MainStep \/ WriterStep)
    /\ \A r \in 1..MaxCfgPorts :
        WF_vars(r \in Readers /\ (SendOk(r) \/ SendFail(r)))

\* ----------------------------------------------------------- properties
Running == proc = "running"

\* the OutputStore of this run
Store == IF file THEN fs[filePath] ELSE <<>>

\* the writer loop has ended at end-of-stream and main returns Ok(())
WriterStopped == Running /\ mainpc = "ret_ok"

\* every reader has been spawned and the path has been printed
Started == printed /\ spawnIdx \notin Readers

PortIds == {ports[r] : r \in Readers}
LineIds == 0..MaxReads

\* Records of the store that bear port p and text t
InStore(p, t) ==
    Cardinality({i \in 1..Len(Store) :
        Store[i].port = p /\ Store[i].text = t})

\* items (p, t) that the readers' sends put into the channel
SentBy(p, t) ==
    Cardinality({x \in Readers \X (1..MaxReads) :
        /\ ports[x[1]] = p
        /\ x[2] <= Len(sent[x[1]])
        /\ sent[x[1]][x[2]] = t})

\* the texts of the Records that bear port p, in store order
TextsOf(p) ==
    LET s == SelectSeq(Store, LAMBDA rec : rec.port = p)
    IN  [i \in 1..Len(s) |-> s[i].text]

IsPrefix(a, b) == Len(a) <= Len(b) /\ \A i \in 1..Len(a) : a[i] = b[i]

ReadersOf(p) == {r \in Readers : ports[r] = p}
OpenFailed == {r \in Readers : openRes[r] = "failed"}
LastEvent(r) == IF events[r] = <<>> THEN "none" ELSE events[r][Len(events[r])]

\* C1: once the writer loop has ended at end-of-stream, the store holds, for
\* every port and text, exactly as many Records as items with that port and
\* text were accepted by the readers' sends: none missing, none twice.
C1_NoLossNoDuplication ==
    WriterStopped =>
        \A p \in PortIds, t \in LineIds : InStore(p, t) = SentBy(p, t)

C1_Witness ==
    /\ WriterStopped
    /\ Len(Store) = 3
    /\ \E r1, r2 \in Readers : r1 # r2 /\ sent[r1] # <<>> /\ sent[r2] # <<>>

\* C2: for a port that one reader reads, the texts of the Records bearing
\* the port's name are, in store order, the first lines that reader decoded,
\* in the order it decoded them, whatever the other readers do meanwhile.
C2_PerPortOrder ==
    \A r \in Readers :
        ReadersOf(ports[r]) = {r} => IsPrefix(TextsOf(ports[r]), Decoded(r))

C2_Witness ==
    /\ Len(Store) = 3
    /\ \E r1, r2 \in Readers :
        /\ ports[r1] # ports[r2]
        /\ Store[1].port = ports[r1]
        /\ Store[2].port = ports[r2]
        /\ Store[3].port = ports[r1]

\* C3: a reader whose open failed has exited with its Sender dropped and has
\* read and sent nothing; its open step changes nothing of main, the channel,
\* the store or any other reader; the process ends only from main or by an
\* interrupt; and when the writer loop has ended, every line another reader
\* sent is a Record of the store.
C3_FailedReader ==
    /\ \A r \in OpenFailed :
        /\ rpc[r] = "exited"
        /\ ~txHeld[r]
        /\ sent[r] = <<>>
        /\ events[r] = <<>>
    /\ (WriterStopped /\ OpenFailed # {}) =>
        \A r \in Readers \ OpenFailed :
            \A i \in 1..Len(sent[r]) : InStore(ports[r], sent[r][i]) >= 1

C3_OpenStep ==
    /\ \A r \in Readers :
        (openRes[r] = "none" /\ openRes'[r] # "none") =>
            /\ proc' = proc
            /\ UNCHANGED <<envVars, mainVars, chanVars>>
            /\ \A o \in Readers \ {r} :
                rpc'[o] = rpc[o] /\ txHeld'[o] = txHeld[o]
    /\ (Running /\ proc' \notin {"running", "killed"}) =>
        mainpc \in {"parse", "ret_ok", "ret_err"}

\* C3: in every state a failed reader is as C3_FailedReader says, and every
\* step is as C3_OpenStep says: an open failure stays with its reader.
C3_OpenFailureIsolated == []C3_FailedReader /\ [][C3_OpenStep]_vars

C3_Witness ==
    /\ WriterStopped
    /\ Len(Store) >= 2
    /\ \E r \in OpenFailed : \E o \in Readers \ OpenFailed : Len(sent[o]) >= 2

\* C4: when every reader has exited and main is past drop(tx), the writer
\* loop is eventually over: it reaches end-of-stream, unless a write fails
\* or the process is interrupted first.
AllProducersGone ==
    /\ Running
    /\ mainpc \in {"recv", "write"}
    /\ \A r \in Readers : rpc[r] = "exited"

\* C4: AllProducersGone leads to the end of the writer loop.
C4_WriterTerminates ==
    AllProducersGone ~> (mainpc = "ret_ok" \/ wrote \/ ~Running)

C4_Witness ==
    /\ WriterStopped
    /\ NoSenders
    /\ \E r \in Readers : sent[r] # <<>> /\ LastEvent(r) = "eof"

C6_TooManyPorts ==
    Len(ports) > MaxPorts =>
        /\ mainpc = "parse"
        /\ ~dirExists
        /\ fs = <<>>
        /\ ~printed
        /\ ~file
        /\ ~rxAlive
        /\ \A r \in Readers : rpc[r] = "unspawned" /\ openRes[r] = "none"
        /\ \/ proc \in {"running", "killed", "exit_cfg"}
           \/ proc = "exit_ok" /\ argKind = "help"

C6_Witness ==
    /\ Len(ports) > MaxPorts
    /\ argKind = "ok"
    /\ directory # ""
    /\ proc = "exit_cfg"

\* C7: after a decode failure the reader is still in its read loop with its
\* Sender; and, as long as no write has failed, the lines a reader has sent
\* are exactly the lines it decoded, in order (all but the one it holds while
\* it is about to send): nothing is sent for a failure, no line is left out.
C7_DecodeFailureSkipped ==
    \A r \in Readers :
        /\ LastEvent(r) = "bad" => (rpc[r] = "read" /\ txHeld[r])
        /\ rpc[r] = "send" => hand[r] = CountOf(r, "line")
        /\ ~wrote =>
            sent[r] = IF rpc[r] = "send"
                      THEN SubSeq(Decoded(r), 1, CountOf(r, "line") - 1)
                      ELSE Decoded(r)

C7_Witness ==
    \E r \in Readers :
        /\ Len(events[r]) >= 2
        /\ events[r][1] = "bad"
        /\ events[r][2] = "line"
        /\ sent[r] = <<1>>
        /\ InStore(ports[r], 1) = 1

\* C8: every Record of the store bears a port and a text that some reader's
\* send put into the channel, and there are no more Records with that port
\* and text than such sends.
C8_EveryRecordWasSent ==
    \A i \in 1..Len(Store) :
        InStore(Store[i].port, Store[i].text)
            <= SentBy(Store[i].port, Store[i].text)

C8_Witness ==
    /\ Running
    /\ Len(Store) >= 2
    /\ queue # <<>>
    /\ \E r1, r2 \in Readers : r1 # r2 /\ sent[r1] # <<>> /\ sent[r2] # <<>>

\* C9 as claimed: the file a further run creates has another name than the
\* file of the run before it, and that file still has the content it had
\* when its run ended.
C9_NewFileEachRun ==
    (runs >= 2 /\ Running /\ file /\ lastMade) =>
        /\ filePath # lastPath
        /\ fs[lastPath] = lastContent

\* C10 as claimed: once started, main does not return.
C10_NeverStopsItself ==
    ~(Running /\ Started /\ mainpc \in {"ret_ok", "ret_err"})

\* C10 amended: once started, main returns only when every reader has exited,
\* every Sender is dropped and the channel is empty (Ok), or when a write to
\* the store has failed (Err).
C10_StopsOnlyWhenDone ==
    (Running /\ Started) =>
        /\ mainpc = "ret_ok" =>
            /\ \A r \in Readers : rpc[r] = "exited"
            /\ NoSenders
            /\ queue = <<>>
        /\ mainpc = "ret_err" => wrote

C10_Witness ==
    /\ Running
    /\ Started
    /\ mainpc = "ret_ok"
    /\ \E r \in Readers : LastEvent(r) = "eof" /\ sent[r] # <<>>

\* main is returning the error of create_dir_all or of File::create
StoreCreationFailed == Running /\ mainpc = "ret_err" /\ ~file

\* C11: as long as the output file has not been created there is no
\* channel, no reader has been spawned and no port has been opened; when the
\* directory or the file could not be created, main returns the error and
\* nothing but the end of the process can follow.
C11_StoreErrorBeforeConcurrency ==
    /\ (Running /\ ~file) =>
        /\ ~txMain
        /\ ~rxAlive
        /\ queue = <<>>
        /\ spawnIdx = 1
        /\ \A r \in Readers :
            /\ rpc[r] = "unspawned"
            /\ ~txHeld[r]
            /\ openRes[r] = "none"
    /\ StoreCreationFailed => ~ENABLED (MainStep \/ WriterStep)

C11_Witness ==
    /\ StoreCreationFailed
    /\ printed
    /\ dirExists
    /\ Len(ports) = 2

RECURSIVE SentUpTo(_)
SentUpTo(n) == IF n = 0 THEN 0 ELSE Len(sent[n]) + SentUpTo(n - 1)

\* items the writer has taken out of the channel in this run: all that were
\* queued by a send less those still queued
Dequeued == SentUpTo(Len(ports)) - Len(queue)

\* C12: every item the writer has taken out of the channel is in the store
\* as a Record, or is the one item whose append is in progress; nothing
\* dequeued is missing from the store, an append that fails included.
C12_NoLossAfterDequeue ==
    (Running /\ file) =>
        Dequeued = Len(Store) + (IF whand = NoItem THEN 0 ELSE 1)

\* the pipeline's lifecycle as main and the readers stand: Starting up to
\* drop(tx), then Running while a reader lives and Draining once all have
\* exited, Stopped when the writer loop has seen the end of the stream;
\* Failed is main returning an error
Phase ==
    IF mainpc = "ret_ok" THEN "Stopped"
    ELSE IF mainpc = "ret_err" THEN "Failed"
    ELSE IF mainpc \in {"recv", "write"}
         THEN IF \A r \in Readers : rpc[r] = "exited" THEN "Draining"
              ELSE "Running"
    ELSE "Starting"

PhaseOrder == <<"Starting", "Running", "Draining", "Stopped">>
PhaseRank(p) == CHOOSE i \in DOMAIN PhaseOrder : PhaseOrder[i] = p

C13_Step ==
    (Running /\ proc' = "running") =>
        /\ (Phase \in {PhaseOrder[i] : i \in DOMAIN PhaseOrder} /\ Phase' \in {PhaseOrder[i] : i \in DOMAIN PhaseOrder}) =>
               PhaseRank(Phase) <= PhaseRank(Phase')
        /\ (Phase' = "Stopped" /\ Phase # "Stopped") =>
               /\ Phase = "Draining"
               /\ EndOfStream
        /\ Phase = "Stopped" => Phase' = "Stopped"
        /\ Phase = "Failed" => Phase' = "Failed"

\* C13: while the process runs, the pipeline's phase never moves to an
\* earlier one of Starting, Running, Draining, Stopped; it becomes Stopped
\* only in a step taken in Draining, with every reader exited and the
\* channel at end-of-stream, and it leaves Stopped no more.
C13_PhaseOrder == [][C13_Step]_vars

C13_Witness ==
    /\ Running
    /\ Phase = "Stopped"
    /\ Len(ports) = 2
    /\ Len(Store) >= 2
    /\ \E r \in Readers : openRes[r] = "ok"

\* C14: in Draining with items still queued the writer's receive yields an
\* item and not the end of the stream; when the writer has stopped at
\* end-of-stream the channel is empty, the writer holds no item, and the
\* store has one Record for every item that was ever queued.
C14_DrainedBeforeStop ==
    /\ (Running /\ Phase = "Draining" /\ mainpc = "recv" /\ queue # <<>>) =>
        /\ ENABLED RecvItem
        /\ ~ENABLED RecvEnd
    /\ WriterStopped =>
        /\ queue = <<>>
        /\ whand = NoItem
        /\ Len(Store) = SentUpTo(Len(ports))

C14_Witness ==
    /\ Running
    /\ Phase = "Draining"
    /\ mainpc = "recv"
    /\ Len(queue) >= 2
    /\ Len(Store) >= 1

\* a reader thread that has been spawned and has not returned
Live(r) == rpc[r] \in {"open", "read", "send"}

\* C15: main holds its Sender only inside the spawn loop, and while it does
\* the writer has received nothing; once main is past drop(tx) every
\* configured reader has been spawned, and at all times a reader holds a
\* Sender clone exactly while its thread lives, so past drop(tx) the live
\* Senders are those of the readers that have not exited.
C15_HandleDroppedAfterSpawn ==
    Running =>
        /\ txMain =>
            /\ mainpc = "spawn"
            /\ whand = NoItem
            /\ Dequeued = 0
            /\ \A r \in Readers : r < spawnIdx <=> rpc[r] # "unspawned"
        /\ \A r \in Readers : txHeld[r] <=> Live(r)
        /\ (file /\ mainpc \in {"recv", "write", "ret_ok", "ret_err"}) =>
            /\ ~txMain
            /\ \A r \in Readers : rpc[r] # "unspawned"
            /\ NoSenders <=> \A r \in Readers : rpc[r] = "exited"

C15_Witness ==
    /\ Running
    /\ mainpc = "recv"
    /\ ~txMain
    /\ Dequeued = 0
    /\ \E r, q \in Readers :
        /\ rpc[r] = "exited" /\ ~txHeld[r]
        /\ rpc[q] = "send" /\ txHeld[q]

\* the send of the line reader r has decoded is still to come
SendPending(r) == IF rpc[r] = "send" THEN 1 ELSE 0

\* C16: a reader stands at its send exactly when it holds a decoded line,
\* and each decoded line but the one held has had its one send (all of them
\* accepted as long as no append has failed); a reader at its send can take
\* the step in every state, however many items are queued, wherever main
\* and the other readers stand, and it queues the item while the Receiver
\* lives.
C16_SendNeverBlocks ==
    \A r \in Readers : Running =>
        /\ rpc[r] = "send" <=> hand[r] # NoLine
        /\ Len(sent[r]) + SendPending(r) <= CountOf(r, "line")
        /\ ~wrote => Len(sent[r]) + SendPending(r) = CountOf(r, "line")
        /\ rpc[r] = "send" =>
            /\ ENABLED (SendOk(r) \/ SendFail(r))
            /\ rxAlive => ENABLED SendOk(r)

C16_Witness ==
    /\ Running
    /\ mainpc = "write"
    /\ Len(queue) >= 1
    /\ \E r, q \in Readers :
        /\ r # q
        /\ rpc[r] = "send"
        /\ sent[r] # <<>>
        /\ sent[q] # <<>>

\* reader r holds its k-th decoded line, not yet sent
Holds(r, k) ==
    /\ Running
    /\ r \in Readers
    /\ rpc[r] = "send"
    /\ hand[r] = k

\* the store has a Record of reader r's port with the text of its k-th line
Stored(r, k) == r \in Readers /\ InStore(ports[r], k) >= 1

\* C17: whatever the other readers do, one that stays in its read for ever
\* included, a line a reader has decoded is eventually in the store as a
\* Record of that reader's port, unless an append fails or the process is
\* interrupted first.
C17_HungPortDoesNotBlock ==
    \A r \in 1..MaxCfgPorts : \A k \in 1..MaxReads :
        Holds(r, k) ~> (~Running \/ wrote \/ Stored(r, k))

\* one reader has its line in the store while the other is still in the
\* read it entered after opening its port, having got nothing
C17_Witness ==
    /\ Running
    /\ ~wrote
    /\ \E r, h \in Readers :
        /\ r # h
        /\ rpc[h] = "read" /\ events[h] = <<>>
        /\ sent[r] # <<>>
        /\ InStore(ports[r], sent[r][1]) >= 1

C18_Sorted ==
    (Running /\ file) =>
        /\ \A i, j \in 1..Len(Store) : i <= j => Store[i].ts <= Store[j].ts
        /\ \A i \in 1..Len(Store) : filePath <= Store[i].ts /\ Store[i].ts <= clock

C18_Stamp ==
    (Running /\ file /\ file' /\ Len(Store') > Len(Store)) =>
        /\ mainpc = "write"
        /\ Store'[Len(Store')].ts = clock'
        /\ Store'[Len(Store')].port = whand.port
        /\ Store'[Len(Store')].text = whand.text
        /\ clock <= clock'

\* C18: the Record a step appends carries the clock value read in that
\* step, the writer's step for the item it holds after dequeuing it, and the
\* clock not running backwards, the timestamps of the store never decrease
\* from one Record to the next and lie between the file's and the clock's.
C18_TimestampsInProcessingOrder == []C18_Sorted /\ [][C18_Stamp]_vars

C18_Witness ==
    /\ Running
    /\ file
    /\ Len(Store) >= 2
    /\ Store[1].ts < Store[2].ts
    /\ Store[1].port # Store[2].port

C19_Step ==
    /\ fs' # fs =>
        /\ Running /\ proc' = "running"
        /\ mainpc \in {"create", "write"}
        /\ mainpc = "create" => ~file /\ file' /\ Store' = <<>>
        /\ readerVars' = readerVars
    /\ (Running /\ proc' = "running" /\ file) =>
        /\ file' /\ filePath' = filePath
        /\ \/ Store' = Store
           \/ /\ mainpc = "write" /\ mainpc' = "recv"
              /\ Len(Store') = Len(Store) + 1
              /\ SubSeq(Store', 1, Len(Store)) = Store
              /\ Store'[Len(Store')] = Record(clock', whand)

\* C19: the files change only in main's File::create, which makes this
\* run's store, empty, and in the writer's append; once the store exists a
\* step leaves it as it is or is the writer's step and adds one Record, the
\* item the writer holds, after all the Records already there; a step that
\* changes a reader's state changes no file.
C19_AppendOnlySingleWriter == [][C19_Step]_vars

C19_Witness ==
    /\ Running
    /\ mainpc = "write"
    /\ Len(Store) >= 2
    /\ \E r \in Readers : rpc[r] = "exited" /\ LastEvent(r) = "eof"

C20_State ==
    Running =>
        /\ \A r \in Readers :
            /\ rpc[r] = "open" <=> (txHeld[r] /\ openRes[r] = "none")
            /\ openRes[r] = "failed" =>
                /\ rpc[r] = "exited"
                /\ ~txHeld[r]
                /\ hand[r] = NoLine
                /\ sent[r] = <<>>
        /\ (mainpc = "recv" /\ queue = <<>>
              /\ \A r \in Readers : openRes[r] = "failed" \/ rpc[r] = "exited")
           => ENABLED RecvEnd

C20_Step ==
    (Running /\ proc' = "running") =>
        \A r \in Readers :
            /\ openRes[r] # "none" => openRes'[r] = openRes[r]
            /\ openRes[r] # "none" => rpc'[r] # "open"
            /\ openRes[r] = "failed" => UNCHANGED <<rpc[r], txHeld[r], sent[r]>>

\* C20: a reader is at its open only before the open has had a result, and
\* the result, once there, is never replaced by that of another attempt;
\* a reader whose open failed has exited with its Sender dropped, has sent
\* nothing and holds no line, and stays so; readers whose open failed do
\* not keep the writer from seeing the end of the stream.
C20_OpensOnce == []C20_State /\ [][C20_Step]_vars

C20_Witness ==
    /\ Running
    /\ mainpc = "ret_ok"
    /\ Len(ports) = 2
    /\ OpenFailed = Readers
    /\ Store = <<>>

====
